---- MODULE Spec2Model ----
(***************************************************************************)
(* LicenseSpring MCP servers: authentication header construction, the      *)
(* three-way mode policy of the License API client, and the startup        *)
(* sequence of the License API and Management API servers.                 *)
(*                                                                         *)
(* JavaScript strings are TLA+ strings.  A value that may be `undefined`   *)
(* is a tuple of length at most one: <<>> is undefined, <<s>> is s.        *)
(***************************************************************************)
EXTENDS Integers, Sequences, FiniteSets, Bags, TLC

VARIABLES
    server,      \* which server process runs: "license", "management", "unit"
    pc,          \* position in the server's top-level script
    env,         \* process.env: NODE_ENV and the two credential variables
    clock,       \* system clock, in ticks
    licClient,   \* <<>> or <<the LicenseApiClient instance>>
    mgmtClient,  \* <<>> or <<the ManagementApiClient instance>>
    reqs,        \* bag of the requests issued through the client
    console,     \* lines written by console.log / warn / error
    config,      \* the script's constants, read from process.env when it loads
    ret          \* unit level: the function called, how often, and what it returned last

vars == <<server, pc, env, clock, licClient, mgmtClient, reqs, console, config, ret>>

-----------------------------------------------------------------------------
(* Bounds *)

MaxRequests == 2
MaxClock == 2
TicksPerSecond == 2
DigestChars == 2
MaxCalls == 2

-----------------------------------------------------------------------------
(* JavaScript values *)

Undefined == <<>>

Some(s) == <<s>>

\* !!v for a string-or-undefined value
Truthy(v) == v # Undefined /\ v[1] # ""

\* `${v}` in a template literal
Str(v) == IF v = Undefined THEN "undefined" ELSE v[1]

\* String.prototype.startsWith
StartsWith(s, p) == Len(s) >= Len(p) /\ SubSeq(s, 1, Len(p)) = p

\* String.prototype.includes
Includes(s, p) == \E i \in 1..(Len(s) - Len(p) + 1) : SubSeq(s, i, i + Len(p) - 1) = p

TwoDigits(n) == IF n < 10 THEN "0" \o ToString(n) ELSE ToString(n)

\* new Date().toUTCString(): the clock rendered as an HTTP-date, to the second.
\* The clock starts at the epoch and stays within its first day.
toUTCString(t) ==
    LET s == t \div TicksPerSecond
    IN  "Thu, 01 Jan 1970 " \o TwoDigits(s \div 3600) \o ":"
            \o TwoDigits((s \div 60) % 60) \o ":" \o TwoDigits(s % 60) \o " GMT"

-----------------------------------------------------------------------------
(* crypto.createHmac('sha256', key).update(msg).digest('base64'), with a     *)
(* digest of DigestChars base64 characters.                                 *)

Alphabet ==
    "abcdefghijklmnopqrstuvwxyzABCDEFGHIJKLMNOPQRSTUVWXYZ0123456789 ,:-_\n"

Base64Chars ==
    "ABCDEFGHIJKLMNOPQRSTUVWXYZabcdefghijklmnopqrstuvwxyz0123456789+/"

Chars == {SubSeq(Alphabet, i, i) : i \in 1..Len(Alphabet)}

CharCodes == [c \in Chars |-> CHOOSE i \in 1..Len(Alphabet) : SubSeq(Alphabet, i, i) = c]

CharCode(c) == IF c \in Chars THEN CharCodes[c] ELSE 0

Bytes(s) == [i \in 1..Len(s) |-> CharCode(SubSeq(s, i, i))]

\* lane^e modulo 64
RECURSIVE PowMod(_, _)
PowMod(b, e) ==
    IF e = 0 THEN 1
    ELSE LET r == PowMod(b, e \div 2)
         IN  IF e % 2 = 0 THEN (r * r) % 64 ELSE (((r * r) % 64) * b) % 64

\* One lane of the hash of bytes[lo..hi], started from 0, with multiplier m.
RECURSIVE Mix(_, _, _, _)
Mix(bytes, lo, hi, m) ==
    IF lo > hi THEN 0
    ELSE IF lo = hi THEN (bytes[lo] + 1) % 64
    ELSE LET mid == (lo + hi) \div 2
         IN  (Mix(bytes, lo, mid, m) * PowMod(m, hi - mid) + Mix(bytes, mid + 1, hi, m)) % 64

\* The digest: DigestChars lanes of six bits.  Lane j is
\* h := 5 + j; for each byte b: h := h * m + b + 1 (mod 64), with m = 31 + 2 * j.
Sha(bytes) ==
    [j \in 1..DigestChars |->
        LET m == (31 + 2 * j) % 64
        IN  (((5 + j) % 64) * PowMod(m, Len(bytes)) + Mix(bytes, 1, Len(bytes), m)) % 64]

\* digest('base64')
Base64(digest) ==
    LET enc[j \in 0..Len(digest)] ==
            IF j = 0 THEN ""
            ELSE enc[j - 1] \o SubSeq(Base64Chars, digest[j] + 1, digest[j] + 1)
    IN  enc[Len(digest)]

\* HMAC: H((key + opad) || H((key + ipad) || msg))
HmacSha256Base64(key, msg) ==
    LET k == Bytes(key)
        ipad == [i \in 1..Len(k) |-> (k[i] + 54) % 128]
        opad == [i \in 1..Len(k) |-> (k[i] + 92) % 128]
    IN  Base64(Sha(opad \o Sha(ipad \o Bytes(msg))))

-----------------------------------------------------------------------------
(* src/utils/auth.ts *)

\* A call either returns a value or throws.
Return(v) == [threw |-> FALSE, value |-> v, error |-> ""]

Throw(msg) == [threw |-> TRUE, value |-> "", error |-> msg]

\* Variant: the string is extended as soon as one identifier is supplied.
SigningStringEitherIdentifier(apiKey, date, licenseKey, hardwareId) ==
    LET base == "licenseSpring\ndate: " \o date
    IN  IF Truthy(licenseKey) \/ Truthy(hardwareId)
        THEN base \o "\n" \o Str(licenseKey) \o "\n" \o Str(hardwareId)
                  \o "\n" \o Str(apiKey)
        ELSE base

\* Variant: the timestamp is left out of the string.
SigningStringNoDate(apiKey, date, licenseKey, hardwareId) ==
    LET base == "licenseSpring\ndate: "
    IN  IF Truthy(licenseKey) /\ Truthy(hardwareId)
        THEN base \o "\n" \o Str(licenseKey) \o "\n" \o Str(hardwareId)
                  \o "\n" \o Str(apiKey)
        ELSE base

\* Variant: the identifiers are never appended.
SigningStringBaseOnly(apiKey, date, licenseKey, hardwareId) ==
    "licenseSpring\ndate: " \o date

SigningString(apiKey, date, licenseKey, hardwareId) ==
    LET base == "licenseSpring\ndate: " \o date
    IN  IF Truthy(licenseKey) /\ Truthy(hardwareId)
        THEN base \o "\n" \o Str(licenseKey) \o "\n" \o Str(hardwareId)
                  \o "\n" \o Str(apiKey)
        ELSE base

\* Variant: the timestamp signed is read from the clock, not taken from the argument.
generateLicenseApiSignatureReadsClock(sharedKey, apiKey, date, licenseKey, hardwareId) ==
    IF sharedKey = Undefined
    THEN Throw("TypeError: The \"key\" argument must be of type string")
    ELSE Return(HmacSha256Base64(sharedKey[1],
                    SigningString(apiKey, toUTCString(clock), licenseKey, hardwareId)))

generateLicenseApiSignature(sharedKey, apiKey, date, licenseKey, hardwareId) ==
    IF sharedKey = Undefined
    THEN Throw("TypeError: The \"key\" argument must be of type string")
    ELSE Return(HmacSha256Base64(sharedKey[1],
                    SigningString(apiKey, date, licenseKey, hardwareId)))

\* Variant: the clock is read a second time for the date that is returned.
generateLicenseApiAuthHeaderTwoClocks(sharedKey, apiKey, licenseKey, hardwareId, now) ==
    LET signature == generateLicenseApiSignature(sharedKey, apiKey, toUTCString(now),
                                                 licenseKey, hardwareId)
    IN  IF signature.threw
        THEN [threw |-> TRUE, error |-> signature.error, date |-> "", authorization |-> ""]
        ELSE [threw |-> FALSE, error |-> "", date |-> toUTCString(now + TicksPerSecond),
              authorization |->
                  "algorithm=\"hmac-sha256\",headers=\"date\",signature=\""
                      \o signature.value \o "\",apikey=\"" \o Str(apiKey) \o "\""]

\* Variant: the attributes are separated by a comma and a space.
generateLicenseApiAuthHeaderSpaced(sharedKey, apiKey, licenseKey, hardwareId, now) ==
    LET date == toUTCString(now)
        signature == generateLicenseApiSignature(sharedKey, apiKey, date,
                                                 licenseKey, hardwareId)
    IN  IF signature.threw
        THEN [threw |-> TRUE, error |-> signature.error, date |-> "", authorization |-> ""]
        ELSE [threw |-> FALSE, error |-> "", date |-> date,
              authorization |->
                  "algorithm=\"hmac-sha256\", headers=\"date\", signature=\""
                      \o signature.value \o "\", apikey=\"" \o Str(apiKey) \o "\""]

generateLicenseApiAuthHeader(sharedKey, apiKey, licenseKey, hardwareId, now) ==
    LET date == toUTCString(now)
        signature == generateLicenseApiSignature(sharedKey, apiKey, date,
                                                 licenseKey, hardwareId)
    IN  IF signature.threw
        THEN [threw |-> TRUE, error |-> signature.error, date |-> "", authorization |-> ""]
        ELSE [threw |-> FALSE, error |-> "", date |-> date,
              authorization |->
                  "algorithm=\"hmac-sha256\",headers=\"date\",signature=\""
                      \o signature.value \o "\",apikey=\"" \o Str(apiKey) \o "\""]

\* Variant: in a test environment a fixed test key takes the key's place.
generateManagementApiAuthHeaderTestEnv(apiKey) ==
    IF env.NODE_ENV = Some("test") THEN "Api-Key test-key" ELSE "Api-Key " \o Str(apiKey)

generateManagementApiAuthHeader(apiKey) == "Api-Key " \o Str(apiKey)


\* One console line.
Line(level, text) == [level |-> level, text |-> text]

\* Variant: the shared secret is required as well.
validateLicenseApiAuthRequiresSecret(apiKey, sharedKey, nodeEnv) ==
    IF ~Truthy(apiKey)
    THEN [threw |-> TRUE,
          error |-> "LICENSE_API_KEY is required for License API operations",
          lines |-> <<>>]
    ELSE IF ~Truthy(sharedKey)
    THEN [threw |-> TRUE,
          error |-> "LICENSE_SHARED_KEY is required for License API operations",
          lines |-> <<>>]
    ELSE [threw |-> FALSE, error |-> "", lines |-> <<>>]

\* Variant: a test environment waives the primary key.
validateLicenseApiAuthTestWaives(apiKey, sharedKey, nodeEnv) ==
    IF ~Truthy(apiKey) /\ nodeEnv # Some("test")
    THEN [threw |-> TRUE,
          error |-> "LICENSE_API_KEY is required as the primary authentication method for License API operations",
          lines |-> <<>>]
    ELSE IF apiKey = Undefined
    THEN [threw |-> TRUE,
          error |-> "TypeError: Cannot read properties of undefined (reading 'startsWith')",
          lines |-> <<>>]
    ELSE [threw |-> FALSE, error |-> "",
          lines |-> << Line("warn", "Running in TEST MODE - API calls will use mock authentication") >>]

\* Variant: without a shared secret only the confirmation line is logged.
validateLicenseApiAuthQuietLimited(apiKey, sharedKey, nodeEnv) ==
    IF ~Truthy(apiKey)
    THEN [threw |-> TRUE,
          error |-> "LICENSE_API_KEY is required as the primary authentication method for License API operations",
          lines |-> <<>>]
    ELSE LET isTestMode == StartsWith(apiKey[1], "test-") \/ nodeEnv = Some("test")
         IN  [threw |-> FALSE, error |-> "",
              lines |->
                IF isTestMode
                THEN << Line("warn", "Running in TEST MODE - API calls will use mock authentication"),
                        Line("warn", "   Using LICENSE_API_KEY for test authentication") >>
                ELSE IF Truthy(sharedKey)
                THEN << Line("log", "License API authentication configured with LICENSE_API_KEY (primary) and LICENSE_SHARED_KEY (enhanced security)") >>
                ELSE << Line("log", "License API authentication configured with LICENSE_API_KEY (primary authentication method)") >>]

\* Variant: test mode is recognised by the key's prefix alone.
validateLicenseApiAuthPrefixOnly(apiKey, sharedKey, nodeEnv) ==
    IF ~Truthy(apiKey)
    THEN [threw |-> TRUE,
          error |-> "LICENSE_API_KEY is required as the primary authentication method for License API operations",
          lines |-> <<>>]
    ELSE LET isTestMode == StartsWith(apiKey[1], "test-")
             hasSharedKey == Truthy(sharedKey) /\ ~isTestMode
         IN  [threw |-> FALSE, error |-> "",
              lines |->
                IF isTestMode
                THEN << Line("warn", "Running in TEST MODE - API calls will use mock authentication"),
                        Line("warn", "   Using LICENSE_API_KEY for test authentication") >>
                ELSE IF hasSharedKey
                THEN << Line("log", "License API authentication configured with LICENSE_API_KEY (primary) and LICENSE_SHARED_KEY (enhanced security)") >>
                ELSE << Line("log", "License API authentication configured with LICENSE_API_KEY (primary authentication method)"),
                        Line("warn", "LICENSE_SHARED_KEY not provided - this is optional for organizations using shared API settings"),
                        Line("warn", "   The MCP server will use LICENSE_API_KEY as the primary authentication method"),
                        Line("warn", "   If your organization requires shared key authentication, please provide LICENSE_SHARED_KEY") >>]

validateLicenseApiAuth(apiKey, sharedKey, nodeEnv) ==
    IF ~Truthy(apiKey)
    THEN [threw |-> TRUE,
          error |-> "LICENSE_API_KEY is required as the primary authentication method for License API operations",
          lines |-> <<>>]
    ELSE LET isTestMode == StartsWith(apiKey[1], "test-") \/ nodeEnv = Some("test")
             hasSharedKey == Truthy(sharedKey) /\ ~isTestMode
         IN  [threw |-> FALSE, error |-> "",
              lines |->
                IF isTestMode
                THEN << Line("warn", "Running in TEST MODE - API calls will use mock authentication"),
                        Line("warn", "   Using LICENSE_API_KEY for test authentication") >>
                ELSE IF hasSharedKey
                THEN << Line("log", "License API authentication configured with LICENSE_API_KEY (primary) and LICENSE_SHARED_KEY (enhanced security)") >>
                ELSE << Line("log", "License API authentication configured with LICENSE_API_KEY (primary authentication method)"),
                        Line("warn", "LICENSE_SHARED_KEY not provided - this is optional for organizations using shared API settings"),
                        Line("warn", "   The MCP server will use LICENSE_API_KEY as the primary authentication method"),
                        Line("warn", "   If your organization requires shared key authentication, please provide LICENSE_SHARED_KEY") >>]

\* Variant: a test environment waives the primary key.
validateManagementApiAuthTestWaives(apiKey, nodeEnv) ==
    LET isTestMode == (apiKey # Undefined /\ StartsWith(apiKey[1], "test-"))
                          \/ nodeEnv = Some("test")
    IN  IF ~Truthy(apiKey) /\ ~isTestMode
        THEN [threw |-> TRUE,
              error |-> "MANAGEMENT_API_KEY is required for Management API operations",
              lines |-> <<>>]
        ELSE [threw |-> FALSE, error |-> "",
              lines |->
                IF isTestMode
                THEN << Line("warn", "Running in test mode - API calls will fail but server will start") >>
                ELSE <<>>]

validateManagementApiAuth(apiKey, nodeEnv) ==
    LET isTestMode == (apiKey # Undefined /\ StartsWith(apiKey[1], "test-"))
                          \/ nodeEnv = Some("test")
    IN  IF ~Truthy(apiKey)
        THEN [threw |-> TRUE,
              error |-> "MANAGEMENT_API_KEY is required for Management API operations",
              lines |-> <<>>]
        ELSE [threw |-> FALSE, error |-> "",
              lines |->
                IF isTestMode
                THEN << Line("warn", "Running in test mode - API calls will fail but server will start") >>
                ELSE <<>>]

-----------------------------------------------------------------------------
(* src/utils/http.ts *)

\* Variant: an empty shared secret counts as present.
NewLicenseApiClientEmptySecretCounts(apiKey, sharedKey, nodeEnv) ==
    IF apiKey = Undefined
    THEN [threw |-> TRUE,
          error |-> "TypeError: Cannot read properties of undefined (reading 'startsWith')",
          instance |-> <<>>]
    ELSE LET isTestMode == StartsWith(apiKey[1], "test-") \/ nodeEnv = Some("test")
         IN  [threw |-> FALSE, error |-> "",
              instance |-> << [apiKey |-> apiKey,
                               sharedKey |-> sharedKey,
                               isTestMode |-> isTestMode,
                               hasSharedKey |-> sharedKey # Undefined /\ ~isTestMode] >>]

\* new LicenseApiClient(baseURL, apiKey, sharedKey)
NewLicenseApiClient(apiKey, sharedKey, nodeEnv) ==
    IF apiKey = Undefined
    THEN [threw |-> TRUE,
          error |-> "TypeError: Cannot read properties of undefined (reading 'startsWith')",
          instance |-> <<>>]
    ELSE LET isTestMode == StartsWith(apiKey[1], "test-") \/ nodeEnv = Some("test")
         IN  [threw |-> FALSE, error |-> "",
              instance |-> << [apiKey |-> apiKey,
                               sharedKey |-> sharedKey,
                               isTestMode |-> isTestMode,
                               hasSharedKey |-> Truthy(sharedKey) /\ ~isTestMode] >>]

\* Variant: the placeholder header names no key.
PlaceholderHeadersNoKey(this, now) ==
    [threw |-> FALSE, hmac |-> FALSE,
     Date |-> Some(toUTCString(now)),
     Authorization |-> Some(
         "algorithm=\"hmac-sha256\",headers=\"date\",signature=\"test-signature\"")]

\* The three header schemes of the interceptor.
PlaceholderHeaders(this, now) ==
    [threw |-> FALSE, hmac |-> FALSE,
     Date |-> Some(toUTCString(now)),
     Authorization |-> Some(
         "algorithm=\"hmac-sha256\",headers=\"date\",signature=\"test-signature\",apikey=\""
             \o Str(this.apiKey) \o "\"")]

\* Variant: the signed header names the shared secret next to the signature.
SignedHeadersWithSecret(this, now) ==
    LET h == generateLicenseApiAuthHeader(this.sharedKey, this.apiKey,
                                          Undefined, Undefined, now)
    IN  IF h.threw
        THEN [threw |-> TRUE, hmac |-> TRUE, Date |-> Undefined,
              Authorization |-> Undefined]
        ELSE [threw |-> FALSE, hmac |-> TRUE, Date |-> Some(h.date),
              Authorization |-> Some(h.authorization \o ",secret=\""
                                         \o Str(this.sharedKey) \o "\"")]

SignedHeaders(this, now) ==
    LET h == generateLicenseApiAuthHeader(this.sharedKey, this.apiKey,
                                          Undefined, Undefined, now)
    IN  IF h.threw
        THEN [threw |-> TRUE, hmac |-> TRUE, Date |-> Undefined,
              Authorization |-> Undefined]
        ELSE [threw |-> FALSE, hmac |-> TRUE, Date |-> Some(h.date),
              Authorization |-> Some(h.authorization)]

\* Variant: the key-only header declares an algorithm as well.
KeyOnlyHeadersDeclaresAlgorithm(this, now) ==
    [threw |-> FALSE, hmac |-> FALSE,
     Date |-> Some(toUTCString(now)),
     Authorization |-> Some("algorithm=\"none\",apikey=\"" \o Str(this.apiKey) \o "\"")]

KeyOnlyHeaders(this, now) ==
    [threw |-> FALSE, hmac |-> FALSE,
     Date |-> Some(toUTCString(now)),
     Authorization |-> Some("apikey=\"" \o Str(this.apiKey) \o "\"")]

\* Variant: the mode is derived again from NODE_ENV on every request.
InterceptorRereadsEnv(this, nodeEnv, now) ==
    LET isTestMode == StartsWith(Str(this.apiKey), "test-") \/ nodeEnv = Some("test")
    IN  IF isTestMode THEN PlaceholderHeaders(this, now)
        ELSE IF Truthy(this.sharedKey) THEN SignedHeaders(this, now)
        ELSE KeyOnlyHeaders(this, now)

\* Variant: every request is signed, whatever the mode.
InterceptorAlwaysSigns(this, nodeEnv, now) == SignedHeaders(this, now)

\* Variant: a shared secret is looked at before the test mode.
InterceptorSecretFirst(this, nodeEnv, now) ==
    IF Truthy(this.sharedKey) THEN SignedHeaders(this, now)
    ELSE IF this.isTestMode THEN PlaceholderHeaders(this, now)
    ELSE KeyOnlyHeaders(this, now)

\* Variant: the timestamp is taken once, at the epoch, and kept for every request.
InterceptorStaleClock(this, nodeEnv, now) ==
    IF this.isTestMode THEN PlaceholderHeaders(this, 0)
    ELSE IF this.hasSharedKey THEN SignedHeaders(this, 0)
    ELSE KeyOnlyHeaders(this, 0)

\* Variant: the credentials are read from process.env again for every request.
InterceptorRereadsCredentials(this, nodeEnv, now) ==
    LET current == [this EXCEPT !.apiKey = env.API_KEY, !.sharedKey = env.SHARED_KEY]
    IN  IF this.isTestMode THEN PlaceholderHeaders(current, now)
        ELSE IF this.hasSharedKey /\ env.SHARED_KEY # Undefined THEN SignedHeaders(current, now)
        ELSE KeyOnlyHeaders(current, now)

\* The request interceptor of a LicenseApiClient, run on one request at clock
\* value now.  hmac records whether the signing function was called.
Interceptor(this, nodeEnv, now) ==
    IF this.isTestMode THEN PlaceholderHeaders(this, now)
    ELSE IF this.hasSharedKey THEN SignedHeaders(this, now)
    ELSE KeyOnlyHeaders(this, now)

\* new ManagementApiClient(baseURL, apiKey)
NewManagementApiClient(apiKey) ==
    [apiKey |-> apiKey,
     headers |-> [Authorization |-> Some(generateManagementApiAuthHeader(apiKey))]]

\* A truthy value that is not a string (an object or array of a JSON body),
\* with the text a template literal renders it as.
NonString == <<"[object Object]", "object">>

IsString(v) == Len(v) = 1

\* String.prototype.toLowerCase
ToLowerCase(s) ==
    LET upper == "ABCDEFGHIJKLMNOPQRSTUVWXYZ"
        lower == "abcdefghijklmnopqrstuvwxyz"
        low(c) == LET at == {i \in 1..26 : SubSeq(upper, i, i) = c}
                  IN  IF at = {} THEN c ELSE LET i == CHOOSE i \in at : TRUE
                                             IN  SubSeq(lower, i, i)
        out[j \in 0..Len(s)] == IF j = 0 THEN "" ELSE out[j - 1] \o low(SubSeq(s, j, j))
    IN  out[Len(s)]

\* a || b || c || d: the first truthy value, else the last one
FirstTruthy(vs) ==
    LET truthy == {i \in 1..Len(vs) : Truthy(vs[i])}
    IN  IF truthy = {} THEN vs[Len(vs)]
        ELSE vs[CHOOSE i \in truthy : \A j \in truthy : i <= j]

\* Variant: the fields of the body are tried in the order detail, error, message.
handleApiErrorDetailFirst(error) ==
    IF error.response # <<>>
    THEN LET status == error.response[1].status
             data == error.response[1].data
         IN  IF data.kind = "object" /\ Truthy(data.detail) THEN Return(Str(data.detail))
             ELSE IF data.kind = "object" /\ Truthy(data.error) THEN Return(Str(data.error))
             ELSE IF data.kind = "object" /\ Truthy(data.message) THEN Return(Str(data.message))
             ELSE Return("HTTP " \o ToString(status) \o ": " \o error.response[1].statusText)
    ELSE IF error.request
    THEN Return("No response received from LicenseSpring API server. Please check your internet connection.")
    ELSE Return(IF Truthy(error.message) THEN Str(error.message)
                ELSE "Unknown error occurred while communicating with LicenseSpring API")

\* handleApiError(error).  An error is [response, request, message]; a response
\* is [status, statusText, data]; data is a body of kind "none" (no body),
\* "text" (a body that is not an object) or "object" with the fields message,
\* error and detail.
handleApiError(error) ==
    IF error.response # <<>>
    THEN LET status == error.response[1].status
             data == error.response[1].data
         IN  IF status = 401 \/ status = 403
             THEN LET errorMessage == FirstTruthy(<<data.message, data.error, data.detail,
                                                     Some(error.response[1].statusText)>>)
                  IN  IF ~IsString(errorMessage)
                      THEN Throw("TypeError: errorMessage.toLowerCase is not a function")
                      ELSE IF \/ Includes(ToLowerCase(errorMessage[1]), "auth")
                              \/ Includes(ToLowerCase(errorMessage[1]), "signature")
                              \/ Includes(ToLowerCase(errorMessage[1]), "unauthorized")
                      THEN Return("Authentication failed: " \o errorMessage[1] \o ". "
                                  \o "Verify your LICENSE_API_KEY is correct. "
                                  \o "If your organization uses shared API settings, you may also need to provide LICENSE_SHARED_KEY for enhanced security.")
                      ELSE Return("Access denied: " \o errorMessage[1])
             ELSE IF data.kind = "object" /\ Truthy(data.message) THEN Return(Str(data.message))
             ELSE IF data.kind = "object" /\ Truthy(data.error) THEN Return(Str(data.error))
             ELSE IF data.kind = "object" /\ Truthy(data.detail) THEN Return(Str(data.detail))
             ELSE Return("HTTP " \o ToString(status) \o ": " \o error.response[1].statusText)
    ELSE IF error.request
    THEN Return("No response received from LicenseSpring API server. Please check your internet connection.")
    ELSE Return(IF Truthy(error.message) THEN Str(error.message)
                ELSE "Unknown error occurred while communicating with LicenseSpring API")

\* The handler of a License API tool (activate_license), given how the call
\* apiClient.post(...) ended: with a response body, or with a thrown error.
ToolHandler(outcome) ==
    IF outcome.ok
    THEN Return([isError |-> FALSE, text |-> outcome.body])
    ELSE LET m == handleApiError(outcome.error)
         IN  IF m.threw THEN Throw(m.error)
             ELSE Return([isError |-> TRUE, text |-> "Error activating license: " \o m.value])

-----------------------------------------------------------------------------
(* Inputs *)

\* Arguments of the exported functions.
ApiKeys == {Undefined, Some(""), Some("test-k1"), Some("live-k1"), Some("test")}

SharedKeys == {Undefined, Some(""), Some("s1"), Some("s2")}

\* Values of LICENSE_API_KEY / MANAGEMENT_API_KEY and LICENSE_SHARED_KEY.
ConfigApiKeys == {Undefined, Some(""), Some("test-k1"), Some("live-k1")}

ConfigSharedKeys == {Undefined, Some(""), Some("s1")}

\* Values of NODE_ENV given to the exported functions.
NodeEnvs == {Undefined, Some("test"), Some("production")}

\* Values of NODE_ENV of a server or client process.
ProcessNodeEnvs == {Undefined, Some("test")}

Identifiers == {Undefined, Some(""), Some("L1")}

\* Tools of the License API server and the client method each one calls.
LicenseTools == {"activate_license", "check_license"}

\* The two offline tools; both call apiClient.post with the license and hardware
\* identifiers in the request body.
OfflineTools == {"activate_offline", "deactivate_offline"}

\* The (license_key, hardware_id) pairs an offline tool is called with.
OfflinePairs == {<<"L1", "H1">>, <<"L2", "H2">>}

NoData == [license_key |-> Undefined, hardware_id |-> Undefined]

\* requestData of an offline tool handler.
RequestData(pair) == [license_key |-> Some(pair[1]), hardware_id |-> Some(pair[2])]

\* Tools of the Management API server.
ManagementTools == {"list_licenses", "create_customer"}

Method(tool) ==
    IF tool \in {"check_license", "list_licenses"} THEN "get" ELSE "post"

\* Methods of the client classes.
Methods == {"get", "post", "put", "delete"}

\* The methods no tool handler calls, called on a client directly.
ClientMethods == {"put", "delete"}

NoHeaders == [Date |-> Undefined, Authorization |-> Undefined]

\* A request as the client method creates it.  Requests are independent
\* promise chains: they are kept as a bag.  data holds the license and hardware
\* identifiers of an offline request's body, hmac records whether the
\* interceptor called the signing function, nodeEnv and envKey the values
\* NODE_ENV and the primary-key variable of process.env had when the
\* interceptor ran.
NewRequest(tool, method) ==
    [tool |-> tool, method |-> method, data |-> NoData, st |-> "created",
     headers |-> NoHeaders, hmac |-> FALSE, nodeEnv |-> Undefined, envKey |-> Undefined]

One(r) == SetToBag({r})

Replace(bag, r, r2) == (bag (-) One(r)) (+) One(r2)

Requests == BagToSet(reqs)

NoArgs == [sharedKey |-> Undefined, apiKey |-> Undefined, date |-> "",
           licenseKey |-> Undefined, hardwareId |-> Undefined]

NoCall == [fn |-> "none", called |-> FALSE, calls |-> 0, args |-> NoArgs, result |-> <<>>]

-----------------------------------------------------------------------------
(* The server scripts: license-api-server.ts, management-api-server.ts *)

\* The script has loaded its constants from process.env.
InitServer ==
    /\ server \in {"license", "management"}
    /\ pc = "load"
    /\ \E k \in ConfigApiKeys, s \in ConfigSharedKeys, e \in ProcessNodeEnvs :
          /\ config = [API_KEY |-> k,
                       SHARED_KEY |-> IF server = "license" THEN s ELSE Undefined]
          /\ env = [NODE_ENV |-> e, API_KEY |-> config.API_KEY,
                    SHARED_KEY |-> config.SHARED_KEY]
    /\ clock = 0
    /\ licClient = <<>>
    /\ mgmtClient = <<>>
    /\ reqs = EmptyBag
    /\ console = <<>>
    /\ ret = NoCall

\* Variant: the catch logs the configuration error and lets the script go on.
LicenseValidateSwallows ==
    /\ server = "license" /\ pc = "load"
    /\ LET r == validateLicenseApiAuth(config.API_KEY, config.SHARED_KEY, env.NODE_ENV)
       IN  console' = console \o
               (IF r.threw THEN << Line("error", "Configuration Error: " \o r.error) >>
                ELSE r.lines)
    /\ pc' = "validated"
    /\ UNCHANGED <<server, env, clock, licClient, mgmtClient, reqs, config, ret>>

\* try { validateLicenseApiAuth(...) } catch { console.error(...); process.exit(1) }
LicenseValidate ==
    /\ server = "license" /\ pc = "load"
    /\ LET r == validateLicenseApiAuth(config.API_KEY, config.SHARED_KEY, env.NODE_ENV)
       IN  IF r.threw
           THEN /\ console' = console \o << Line("error", "Configuration Error: " \o r.error) >>
                /\ pc' = "exited"
           ELSE /\ console' = console \o r.lines
                /\ pc' = "validated"
    /\ UNCHANGED <<server, env, clock, licClient, mgmtClient, reqs, config, ret>>

\* const apiClient = new LicenseApiClient(URL, LICENSE_API_KEY!, LICENSE_SHARED_KEY)
LicenseConstruct ==
    /\ server = "license" /\ pc = "validated"
    /\ LET r == NewLicenseApiClient(config.API_KEY, config.SHARED_KEY, env.NODE_ENV)
       IN  IF r.threw
           THEN /\ pc' = "exited"
                /\ UNCHANGED licClient
           ELSE /\ pc' = "constructed"
                /\ licClient' = r.instance
    /\ UNCHANGED <<server, env, clock, mgmtClient, reqs, console, config, ret>>

\* validateManagementApiAuth(MANAGEMENT_API_KEY): a throw ends the process
ManagementValidate ==
    /\ server = "management" /\ pc = "load"
    /\ LET r == validateManagementApiAuth(config.API_KEY, env.NODE_ENV)
       IN  IF r.threw
           THEN /\ console' = console \o << Line("error", "Configuration Error: " \o r.error) >>
                /\ pc' = "exited"
           ELSE /\ console' = console \o r.lines
                /\ pc' = "validated"
    /\ UNCHANGED <<server, env, clock, licClient, mgmtClient, reqs, config, ret>>

\* const apiClient = new ManagementApiClient(URL, MANAGEMENT_API_KEY!)
ManagementConstruct ==
    /\ server = "management" /\ pc = "validated"
    /\ mgmtClient' = << NewManagementApiClient(config.API_KEY) >>
    /\ pc' = "constructed"
    /\ UNCHANGED <<server, env, clock, licClient, reqs, console, config, ret>>

\* main(): await server.connect(transport)
Connect ==
    /\ server \in {"license", "management"} /\ pc = "constructed"
    /\ pc' = "running"
    /\ UNCHANGED <<server, env, clock, licClient, mgmtClient, reqs, console, config, ret>>

\* main(): server.connect rejects; the catch logs and calls process.exit(1)
ConnectFails ==
    /\ server \in {"license", "management"} /\ pc = "constructed"
    /\ pc' = "exited"
    /\ console' = console \o << Line("error", "Failed to start MCP server") >>
    /\ UNCHANGED <<server, env, clock, licClient, mgmtClient, reqs, config, ret>>

\* A tool handler of the running server calls apiClient.get / apiClient.post.
ToolCall(tool) ==
    /\ pc = "running"
    /\ BagCardinality(reqs) < MaxRequests
    /\ tool \in (IF server = "license" THEN LicenseTools ELSE ManagementTools)
    /\ reqs' = reqs (+) One(NewRequest(tool, Method(tool)))
    /\ UNCHANGED <<server, pc, env, clock, licClient, mgmtClient, console, config, ret>>

\* The handler of an offline tool calls apiClient.post(url, requestData).
OfflineToolCall(tool, pair) ==
    /\ server = "license" /\ pc = "running"
    /\ BagCardinality(reqs) < MaxRequests
    /\ tool \in OfflineTools /\ pair \in OfflinePairs
    /\ reqs' = reqs (+) One([NewRequest(tool, "post") EXCEPT !.data = RequestData(pair)])
    /\ UNCHANGED <<server, pc, env, clock, licClient, mgmtClient, console, config, ret>>

-----------------------------------------------------------------------------
(* Requests through a client *)

\* Variant: the requests in flight share one headers object, so the interceptor
\* run for one request writes the headers of every request not yet sent.
InterceptSharedHeaders(r) ==
    /\ licClient # <<>>
    /\ BagIn(r, reqs) /\ r.st = "created"
    /\ LET h == Interceptor(licClient[1], env.NODE_ENV, clock)
           stamp(q) == IF q.st = "sent" \/ h.threw THEN q
                       ELSE [q EXCEPT !.st = "intercepted", !.hmac = h.hmac,
                                      !.nodeEnv = env.NODE_ENV, !.envKey = env.API_KEY,
                                      !.headers = [Date |-> h.Date,
                                                   Authorization |-> h.Authorization]]
       IN  reqs' = BagOfAll(stamp, reqs)
    /\ UNCHANGED <<server, pc, env, clock, licClient, mgmtClient, console, config, ret>>

\* axios runs the LicenseApiClient request interceptor on request r.
Intercept(r) ==
    /\ licClient # <<>>
    /\ BagIn(r, reqs) /\ r.st = "created"
    /\ LET h == Interceptor(licClient[1], env.NODE_ENV, clock)
       IN  reqs' = Replace(reqs, r,
                       IF h.threw
                       THEN [r EXCEPT !.st = "failed", !.hmac = h.hmac,
                                      !.nodeEnv = env.NODE_ENV, !.envKey = env.API_KEY]
                       ELSE [r EXCEPT !.st = "intercepted", !.hmac = h.hmac,
                                      !.nodeEnv = env.NODE_ENV, !.envKey = env.API_KEY,
                                      !.headers = [Date |-> h.Date,
                                                   Authorization |-> h.Authorization]])
    /\ UNCHANGED <<server, pc, env, clock, licClient, mgmtClient, console, config, ret>>

\* axios hands request r of a LicenseApiClient to the network.
Dispatch(r) ==
    /\ licClient # <<>>
    /\ BagIn(r, reqs) /\ r.st = "intercepted"
    /\ reqs' = Replace(reqs, r, [r EXCEPT !.st = "sent"])
    /\ UNCHANGED <<server, pc, env, clock, licClient, mgmtClient, console, config, ret>>

\* Variant: the header is built again for each request, and dated.
ManagementDispatchDated(r) ==
    /\ mgmtClient # <<>>
    /\ BagIn(r, reqs) /\ r.st = "created"
    /\ reqs' = Replace(reqs, r,
                   [r EXCEPT !.st = "sent",
                             !.headers = [Date |-> Some(toUTCString(clock)),
                                          Authorization |->
                                              Some(generateManagementApiAuthHeader(
                                                       mgmtClient[1].apiKey))]])
    /\ UNCHANGED <<server, pc, env, clock, licClient, mgmtClient, console, config, ret>>

\* axios sends request r of a ManagementApiClient with the instance's headers.
ManagementDispatch(r) ==
    /\ mgmtClient # <<>>
    /\ BagIn(r, reqs) /\ r.st = "created"
    /\ reqs' = Replace(reqs, r,
                   [r EXCEPT !.st = "sent",
                             !.headers = [Date |-> Undefined,
                                          Authorization |-> mgmtClient[1].headers.Authorization]])
    /\ UNCHANGED <<server, pc, env, clock, licClient, mgmtClient, console, config, ret>>

\* Time passes.
AdvanceClock ==
    /\ pc \in {"running", "client", "unit"}
    /\ clock < MaxClock
    /\ clock' = clock + 1
    /\ UNCHANGED <<server, pc, env, licClient, mgmtClient, reqs, console, config, ret>>

\* process.env.NODE_ENV is assigned after startup.
SetNodeEnv(e) ==
    /\ pc \in {"running", "client", "unit"}
    /\ e \in ProcessNodeEnvs /\ e # env.NODE_ENV
    /\ env' = [env EXCEPT !.NODE_ENV = e]
    /\ UNCHANGED <<server, pc, clock, licClient, mgmtClient, reqs, console, config, ret>>



-----------------------------------------------------------------------------
(* The exported functions and classes called directly, as the unit tests    *)
(* of src/utils/__tests__/auth.test.ts call them.                           *)

\* Timestamps passed to generateLicenseApiSignature.
Timestamps ==
    {toUTCString(0), toUTCString(MaxClock),
     "Mon, 19 Oct 2020 15:42:27 GMT", "Tue, 20 Oct 2020 15:42:27 GMT"}

UnitFunctions ==
    {"generateLicenseApiSignature", "generateLicenseApiAuthHeader",
     "generateManagementApiAuthHeader", "validateLicenseApiAuth",
     "validateManagementApiAuth"}

\* The arguments a function reads; the others are left out of its call.
Reads(fn) ==
    CASE fn = "generateLicenseApiSignature" ->
            {"sharedKey", "apiKey", "date", "licenseKey", "hardwareId"}
      [] fn = "generateLicenseApiAuthHeader" ->
            {"sharedKey", "apiKey", "licenseKey", "hardwareId"}
      [] fn = "validateLicenseApiAuth" -> {"sharedKey", "apiKey"}
      [] OTHER -> {"apiKey"}

\* One exported function is called on the arguments chosen here.
InitUnit ==
    /\ server = "unit"
    /\ pc = "unit"
    /\ \E e \in NodeEnvs :
          env = [NODE_ENV |-> e, API_KEY |-> Undefined, SHARED_KEY |-> Undefined]
    /\ config = [API_KEY |-> Undefined, SHARED_KEY |-> Undefined]
    /\ clock = 0
    /\ licClient = <<>>
    /\ mgmtClient = <<>>
    /\ reqs = EmptyBag
    /\ console = <<>>
    /\ \E fn \in UnitFunctions :
            \E s \in IF "sharedKey" \in Reads(fn) THEN SharedKeys ELSE {Undefined},
               k \in ApiKeys,
               date \in IF "date" \in Reads(fn) THEN Timestamps ELSE {""},
               lic \in IF "licenseKey" \in Reads(fn) THEN Identifiers ELSE {Undefined},
               hw \in IF "hardwareId" \in Reads(fn) THEN Identifiers ELSE {Undefined} :
                 ret = [fn |-> fn, called |-> FALSE, calls |-> 0,
                        args |-> [sharedKey |-> s, apiKey |-> k, date |-> date,
                                  licenseKey |-> lic, hardwareId |-> hw],
                        result |-> <<>>]

\* The function under test is called, for the first time or again on the same
\* arguments, and its result kept.
Called(fn, result) ==
    /\ pc = "unit" /\ ret.fn = fn
    /\ ret.calls < MaxCalls
    /\ ret' = [ret EXCEPT !.called = TRUE, !.calls = @ + 1, !.result = result]
    /\ UNCHANGED <<server, pc, env, clock, licClient, mgmtClient, reqs, console, config>>

CallGenerateLicenseApiSignature ==
    Called("generateLicenseApiSignature",
           generateLicenseApiSignature(ret.args.sharedKey, ret.args.apiKey, ret.args.date,
                                       ret.args.licenseKey, ret.args.hardwareId))

CallGenerateLicenseApiAuthHeader ==
    Called("generateLicenseApiAuthHeader",
           generateLicenseApiAuthHeader(ret.args.sharedKey, ret.args.apiKey,
                                        ret.args.licenseKey, ret.args.hardwareId, clock))

CallGenerateManagementApiAuthHeader ==
    Called("generateManagementApiAuthHeader",
           Return(generateManagementApiAuthHeader(ret.args.apiKey)))

CallValidateLicenseApiAuth ==
    Called("validateLicenseApiAuth",
           validateLicenseApiAuth(ret.args.apiKey, ret.args.sharedKey, env.NODE_ENV))

CallValidateManagementApiAuth ==
    Called("validateManagementApiAuth",
           validateManagementApiAuth(ret.args.apiKey, env.NODE_ENV))

NextUnit ==
    \/ CallGenerateLicenseApiSignature
    \/ CallGenerateLicenseApiAuthHeader
    \/ CallGenerateManagementApiAuthHeader
    \/ CallValidateLicenseApiAuth
    \/ CallValidateManagementApiAuth
    \/ AdvanceClock
    \/ \E e \in ProcessNodeEnvs : SetNodeEnv(e)

SpecUnit == InitUnit /\ [][NextUnit]_vars

-----------------------------------------------------------------------------
(* The exported client classes constructed and used directly *)

InitClient ==
    /\ server = "unit"
    /\ pc = "client"
    /\ \E e \in ProcessNodeEnvs :
          env = [NODE_ENV |-> e, API_KEY |-> Undefined, SHARED_KEY |-> Undefined]
    /\ config = [API_KEY |-> Undefined, SHARED_KEY |-> Undefined]
    /\ clock = 0
    /\ licClient = <<>>
    /\ mgmtClient = <<>>
    /\ reqs = EmptyBag
    /\ console = <<>>
    /\ ret = NoCall

CallNewLicenseApiClient(k, s) ==
    /\ pc = "client"
    /\ licClient = <<>> /\ mgmtClient = <<>>
    /\ LET r == NewLicenseApiClient(k, s, env.NODE_ENV)
       IN  /\ licClient' = r.instance
           /\ ret' = [fn |-> "LicenseApiClient", called |-> TRUE, calls |-> 1,
                      args |-> [NoArgs EXCEPT !.apiKey = k, !.sharedKey = s],
                      result |-> [threw |-> r.threw, error |-> r.error]]
    /\ UNCHANGED <<server, pc, env, clock, mgmtClient, reqs, console, config>>

CallNewManagementApiClient(k) ==
    /\ pc = "client"
    /\ licClient = <<>> /\ mgmtClient = <<>>
    /\ mgmtClient' = << NewManagementApiClient(k) >>
    /\ ret' = [fn |-> "ManagementApiClient", called |-> TRUE, calls |-> 1,
               args |-> [NoArgs EXCEPT !.apiKey = k],
               result |-> [threw |-> FALSE, error |-> ""]]
    /\ UNCHANGED <<server, pc, env, clock, licClient, reqs, console, config>>

\* client.get / post / put / delete (and patch on a ManagementApiClient)
ClientCall(method) ==
    /\ pc = "client"
    /\ licClient # <<>> \/ mgmtClient # <<>>
    /\ method \in ClientMethods \/ (method = "patch" /\ mgmtClient # <<>>)
    /\ BagCardinality(reqs) < MaxRequests
    /\ reqs' = reqs (+) One(NewRequest("", method))
    /\ UNCHANGED <<server, pc, env, clock, licClient, mgmtClient, console, config, ret>>

-----------------------------------------------------------------------------
(* handleApiError and a tool handler, called on the ways a request can end *)

Statuses == {400, 401, 403, 500}

StatusTexts == {"", "Unauthorized", "Forbidden", "Not Found"}

\* Values of a field of a JSON response body.
FieldValues ==
    {Undefined, Some(""), Some("Invalid signature"), Some("License not found"), NonString}

Body(kind, message, error, detail) ==
    [kind |-> kind, message |-> message, error |-> error, detail |-> detail]

Bodies ==
    {Body("none", Undefined, Undefined, Undefined),
     Body("text", Undefined, Undefined, Undefined)}
        \cup {Body("object", m, e, d) : m \in FieldValues, e \in FieldValues, d \in FieldValues}

\* The errors a rejected request carries: a response with an error status, a
\* request that got no response, or an error raised before anything was sent.
Errors ==
    {[response |-> << [status |-> st, statusText |-> t, data |-> b] >>,
      request |-> TRUE, message |-> Some("Request failed with status code " \o ToString(st))] :
        st \in Statuses, t \in StatusTexts, b \in Bodies}
    \cup {[response |-> <<>>, request |-> TRUE, message |-> Some("Network Error")]}
    \cup {[response |-> <<>>, request |-> FALSE, message |-> m] :
            m \in {Undefined, Some(""), Some("Invalid URL")}}

\* How apiClient.post(...) ends in a tool handler.
Outcomes ==
    {[ok |-> TRUE, body |-> "{}", error |-> <<>>]}
        \cup {[ok |-> FALSE, body |-> "", error |-> e] : e \in Errors}

InitErrors ==
    /\ server = "unit"
    /\ pc = "unit"
    /\ env = [NODE_ENV |-> Undefined, API_KEY |-> Undefined, SHARED_KEY |-> Undefined]
    /\ config = [API_KEY |-> Undefined, SHARED_KEY |-> Undefined]
    /\ clock = 0
    /\ licClient = <<>>
    /\ mgmtClient = <<>>
    /\ reqs = EmptyBag
    /\ console = <<>>
    /\ \E fn \in {"handleApiError", "activate_license"} :
          \E o \in Outcomes :
              /\ fn = "handleApiError" => ~o.ok
              /\ ret = [fn |-> fn, called |-> FALSE, calls |-> 0, args |-> o, result |-> <<>>]

CallHandleApiError == Called("handleApiError", handleApiError(ret.args.error))

\* The tool is invoked and its handler runs to its end.
CallTool == Called("activate_license", ToolHandler(ret.args))

NextErrors ==
    \/ CallHandleApiError
    \/ CallTool

SpecErrors == InitErrors /\ [][NextErrors]_vars

-----------------------------------------------------------------------------
(* The program: either server, or a client constructed and used directly *)

Init == InitServer \/ InitClient

Next ==
    \/ LicenseValidate
    \/ LicenseConstruct
    \/ ManagementValidate
    \/ ManagementConstruct
    \/ Connect
    \/ ConnectFails
    \/ \E tool \in LicenseTools \cup ManagementTools : ToolCall(tool)
    \/ \E k \in ConfigApiKeys, s \in ConfigSharedKeys : CallNewLicenseApiClient(k, s)
    \/ \E k \in ConfigApiKeys : CallNewManagementApiClient(k)
    \/ \E method \in ClientMethods \cup {"patch"} : ClientCall(method)
    \/ \E r \in Requests : Intercept(r)
    \/ \E r \in Requests : Dispatch(r)
    \/ \E r \in Requests : ManagementDispatch(r)
    \/ AdvanceClock
    \/ \E e \in ProcessNodeEnvs : SetNodeEnv(e)

Spec == Init /\ [][Next]_vars

-----------------------------------------------------------------------------
(* The License API server with its credential variables reassigned at run time *)

\* The values the credential variables are given after startup.
RotatedKeys == [API_KEY |-> Some("live-k2"), SHARED_KEY |-> Some("s2")]

\* process.env.LICENSE_API_KEY or process.env.LICENSE_SHARED_KEY is assigned
\* after the script has read its constants.
SetCredentialEnv(name) ==
    /\ server = "license" /\ pc = "running"
    /\ name \in DOMAIN RotatedKeys
    /\ env[name] # RotatedKeys[name]
    /\ env' = [env EXCEPT ![name] = RotatedKeys[name]]
    /\ UNCHANGED <<server, pc, clock, licClient, mgmtClient, reqs, console, config, ret>>

InitEnv == InitServer /\ server = "license"

NextEnv ==
    \/ LicenseValidate
    \/ LicenseConstruct
    \/ Connect
    \/ \E tool \in LicenseTools : ToolCall(tool)
    \/ \E r \in Requests : Intercept(r)
    \/ \E r \in Requests : Dispatch(r)
    \/ \E name \in DOMAIN RotatedKeys : SetCredentialEnv(name)

SpecEnv == InitEnv /\ [][NextEnv]_vars

-----------------------------------------------------------------------------
(* The License API server serving its two offline tools *)

InitOffline == InitServer /\ server = "license"

NextOffline ==
    \/ LicenseValidate
    \/ LicenseConstruct
    \/ Connect
    \/ \E tool \in OfflineTools, pair \in OfflinePairs : OfflineToolCall(tool, pair)
    \/ \E r \in Requests : Intercept(r)
    \/ \E r \in Requests : Dispatch(r)
    \/ AdvanceClock

SpecOffline == InitOffline /\ [][NextOffline]_vars

-----------------------------------------------------------------------------
(* Reading a header back *)

\* The first position of p in s, or 0.
Find(s, p) ==
    LET at == {i \in 1..(Len(s) - Len(p) + 1) : SubSeq(s, i, i + Len(p) - 1) = p}
    IN  IF at = {} THEN 0 ELSE CHOOSE i \in at : \A j \in at : i <= j

\* The value of attribute name in an attribute string name="value",... ,
\* or <<>> when the attribute is not there.
Attribute(a, name) ==
    LET i == Find(a, name \o "=\"")
        from == i + Len(name) + 2
        close == {j \in from..Len(a) : SubSeq(a, j, j) = "\""}
    IN  IF i = 0 \/ close = {} THEN Undefined
        ELSE Some(SubSeq(a, from, (CHOOSE j \in close : \A l \in close : j <= l) - 1))

\* The header scheme an Authorization value follows.
Scheme(a) ==
    IF Attribute(a, "signature") = Some("test-signature") THEN "placeholder"
    ELSE IF Attribute(a, "signature") # Undefined THEN "signed"
    ELSE IF StartsWith(a, "apikey=\"") THEN "key-only"
    ELSE "other"

\* The mode of a LicenseApiClient: the branch its interceptor takes.
Mode(this) ==
    IF this.isTestMode THEN "Test"
    ELSE IF this.hasSharedKey THEN "Enhanced"
    ELSE "Limited"

SchemeOfMode(mode) ==
    CASE mode = "Test" -> "placeholder"
      [] mode = "Enhanced" -> "signed"
      [] mode = "Limited" -> "key-only"

\* The requests that carry the headers their interceptor attached.
Intercepted == {r \in Requests : r.st \in {"intercepted", "sent"}}

-----------------------------------------------------------------------------
(* C1..C10 *)

\* C1: the mode a LicenseApiClient computes at construction, for a non-empty
\* primary key k, shared secret s and NODE_ENV e, is Test iff k starts with
\* 'test-' or e is 'test'; Enhanced iff it is not Test and s is non-empty;
\* Limited iff it is not Test and s is absent or empty.
C1_ModeAtConstruction ==
    [][ (licClient = <<>> /\ licClient' # <<>> /\ Truthy(licClient'[1].apiKey)) =>
          LET this == licClient'[1]
              test == StartsWith(this.apiKey[1], "test-") \/ env.NODE_ENV = Some("test")
          IN  /\ Mode(this) \in {"Test", "Enhanced", "Limited"}
              /\ Mode(this) = "Test" <=> test
              /\ Mode(this) = "Enhanced" <=> (~test /\ Truthy(this.sharedKey))
              /\ Mode(this) = "Limited" <=> (~test /\ ~Truthy(this.sharedKey)) ]_vars

\* C1 witness: a client built in a test environment with a shared secret
\* present is in Test mode, and one built with an empty secret is Limited.
C1_Witness ==
    /\ licClient # <<>>
    /\ Truthy(licClient[1].sharedKey)
    /\ ~StartsWith(licClient[1].apiKey[1], "test-")
    /\ Mode(licClient[1]) = "Test"

\* C2: once a LicenseApiClient is constructed its mode never changes, and
\* every request is given the header scheme of that mode, whatever NODE_ENV
\* has become since.
C2_ModeFixed ==
    /\ [](licClient # <<>> =>
            \A r \in Intercepted :
                Scheme(Str(r.headers.Authorization)) = SchemeOfMode(Mode(licClient[1])))
    /\ [][licClient # <<>> => licClient' = licClient]_vars

\* C2 witness: NODE_ENV was set to 'test' after a client was constructed in
\* Enhanced mode, and a request was intercepted and sent after that.
C2_Witness ==
    /\ licClient # <<>>
    /\ Mode(licClient[1]) = "Enhanced"
    /\ \E r \in Requests : r.st = "sent" /\ r.nodeEnv = Some("test")

\* C3: in the startup sequence of either server, a missing primary key makes
\* validation raise before the client is constructed and before the transport
\* is connected, and the process exits: no client exists, no tool request is
\* accepted and no request is issued with a missing primary key.
C3_StartupAbortsOnMissingKey ==
    /\ []((server \in {"license", "management"} /\ ~Truthy(config.API_KEY)) =>
            /\ pc \in {"load", "exited"}
            /\ licClient = <<>> /\ mgmtClient = <<>>
            /\ reqs = EmptyBag)
    /\ [][(server \in {"license", "management"} /\ ~Truthy(config.API_KEY) /\ pc = "load") =>
            /\ pc' = "exited"
            /\ console' # console
            /\ Includes(console'[Len(console')].text, "_API_KEY is required")]_vars

\* C3 witness: a server was started without its primary key, validation has
\* raised and the process has exited.
C3_Witness ==
    /\ server = "management"
    /\ ~Truthy(config.API_KEY)
    /\ pc = "exited"
    /\ Len(console) = 1 /\ console[1].level = "error"

\* C4 as claimed: constructing a client with a missing primary key fails with
\* the configuration failure, so no client instance has a missing primary key.
C4_ConstructorRejectsMissingKey ==
    /\ licClient # <<>> => Truthy(licClient[1].apiKey)
    /\ mgmtClient # <<>> => Truthy(mgmtClient[1].apiKey)
    /\ (ret.fn \in {"LicenseApiClient", "ManagementApiClient"} /\ ~Truthy(ret.args.apiKey)) =>
            ret.result.threw

\* C4 as amended: a server constructs its client only after validation has
\* returned normally, so no client of a server process has a missing primary
\* key; the constructors themselves do not validate: new LicenseApiClient raises
\* a TypeError for an undefined key and constructs a client for an empty one, and
\* new ManagementApiClient constructs a client for any key.
C4_ServerClientHasKey ==
    /\ server \in {"license", "management"} =>
          /\ licClient # <<>> => Truthy(licClient[1].apiKey) /\ licClient[1].apiKey = config.API_KEY
          /\ mgmtClient # <<>> => Truthy(mgmtClient[1].apiKey) /\ mgmtClient[1].apiKey = config.API_KEY
          /\ pc \in {"constructed", "running"} => (licClient # <<>> \/ mgmtClient # <<>>)
    /\ ret.fn = "LicenseApiClient" =>
          /\ ret.result.threw <=> ret.args.apiKey = Undefined
          /\ ret.result.threw => StartsWith(ret.result.error, "TypeError") /\ licClient = <<>>
          /\ ~ret.result.threw => licClient # <<>> /\ licClient[1].apiKey = ret.args.apiKey
    /\ ret.fn = "ManagementApiClient" =>
          /\ ~ret.result.threw
          /\ mgmtClient # <<>> /\ mgmtClient[1].apiKey = ret.args.apiKey

\* C4 witness: a running License API server has sent a request through the
\* client it constructed after validation.
C4_Witness ==
    /\ server = "license" /\ pc = "running"
    /\ licClient # <<>> /\ Truthy(licClient[1].apiKey)
    /\ \E r \in Requests : r.st = "sent"

\* C5: validateLicenseApiAuth returns normally whenever the primary key is
\* non-empty, for every shared secret and every NODE_ENV.
C5_ValidateAcceptsAnySecret ==
    (ret.fn = "validateLicenseApiAuth" /\ ret.called /\ Truthy(ret.args.apiKey)) =>
        ~ret.result.threw /\ ret.result.error = ""

\* C5 witness: validateLicenseApiAuth was called with a key and no shared
\* secret outside test mode, and returned after logging the Limited-mode lines.
C5_Witness ==
    /\ ret.fn = "validateLicenseApiAuth" /\ ret.called
    /\ ret.args.apiKey = Some("live-k1") /\ ret.args.sharedKey = Undefined
    /\ env.NODE_ENV # Some("test")
    /\ ~ret.result.threw /\ Len(ret.result.lines) = 4

\* C6: validateLicenseApiAuth and validateManagementApiAuth raise the
\* '..._API_KEY is required' failure whenever the key is absent or empty, for
\* every shared secret and also when NODE_ENV is 'test'.
C6_ValidateRequiresKey ==
    /\ (ret.fn = "validateLicenseApiAuth" /\ ret.called /\ ~Truthy(ret.args.apiKey)) =>
           ret.result.threw /\ StartsWith(ret.result.error, "LICENSE_API_KEY is required")
    /\ (ret.fn = "validateManagementApiAuth" /\ ret.called /\ ~Truthy(ret.args.apiKey)) =>
           ret.result.threw /\ StartsWith(ret.result.error, "MANAGEMENT_API_KEY is required")

\* C6 witness: validateManagementApiAuth was called without a key while
\* NODE_ENV is 'test', and raised.
C6_Witness ==
    /\ ret.fn = "validateManagementApiAuth" /\ ret.called
    /\ ret.args.apiKey = Undefined
    /\ env.NODE_ENV = Some("test")
    /\ ret.result.threw

\* C7 as claimed: when the shared secret is empty or absent, the Authorization
\* header of every License API request has no signature attribute and carries
\* only the primary key, for every primary key and every NODE_ENV.
C7_NoSecretNoSignature ==
    (licClient # <<>> /\ ~Truthy(licClient[1].sharedKey)) =>
        \A r \in Intercepted :
            /\ Attribute(Str(r.headers.Authorization), "signature") = Undefined
            /\ ~Includes(Str(r.headers.Authorization), "signature=")
            /\ r.headers.Authorization = Some("apikey=\"" \o Str(licClient[1].apiKey) \o "\"")

\* C7 as amended: when the shared secret is empty or absent and the client is
\* not in Test mode, the Authorization header of every License API request has
\* no signature attribute and carries only the primary key; in Test mode the
\* header carries signature="test-signature" also without a shared secret.
C7_LimitedNoSignature ==
    (licClient # <<>> /\ ~Truthy(licClient[1].sharedKey)) =>
        \A r \in Intercepted :
            IF licClient[1].isTestMode
            THEN Attribute(Str(r.headers.Authorization), "signature") = Some("test-signature")
            ELSE /\ ~Includes(Str(r.headers.Authorization), "signature=")
                 /\ r.headers.Authorization =
                        Some("apikey=\"" \o Str(licClient[1].apiKey) \o "\"")
                 /\ ~r.hmac

\* C7 witness: a client with an empty shared secret, not in Test mode, has
\* sent a request.
C7_Witness ==
    /\ licClient # <<>>
    /\ licClient[1].sharedKey = Some("")
    /\ ~licClient[1].isTestMode
    /\ \E r \in Requests : r.st = "sent" /\ r.headers.Authorization # Undefined

\* C8: when the primary key starts with 'test-', the Authorization header of
\* every License API request is the placeholder header built from the primary
\* key alone, whatever the shared secret, and no HMAC is computed.
C8_TestKeyPlaceholder ==
    (licClient # <<>> /\ StartsWith(Str(licClient[1].apiKey), "test-")) =>
        \A r \in Intercepted :
            /\ r.headers.Authorization =
                   Some("algorithm=\"hmac-sha256\",headers=\"date\",signature=\"test-signature\",apikey=\""
                            \o Str(licClient[1].apiKey) \o "\"")
            /\ ~r.hmac

\* C8 witness: a client with a 'test-' key and a shared secret, in a
\* non-test environment, has sent a request.
C8_Witness ==
    /\ licClient # <<>>
    /\ StartsWith(Str(licClient[1].apiKey), "test-")
    /\ licClient[1].sharedKey = Some("s1")
    /\ \E r \in Requests : r.st = "sent" /\ r.nodeEnv = Undefined

\* C9: for every License API request in Enhanced mode, the signature in its
\* Authorization header is the HMAC, keyed by the shared secret, of the
\* canonical string built from that same request's Date header.
C9_DateMatchesSigned ==
    (licClient # <<>> /\ Mode(licClient[1]) = "Enhanced") =>
        \A r \in Intercepted :
            /\ r.headers.Date # Undefined
            /\ Attribute(Str(r.headers.Authorization), "signature") =
                   Some(HmacSha256Base64(licClient[1].sharedKey[1],
                                         "licenseSpring\ndate: " \o r.headers.Date[1]))

\* C9 witness: two requests of an Enhanced-mode client, intercepted at
\* different seconds, are in flight together.
C9_Witness ==
    /\ licClient # <<>> /\ Mode(licClient[1]) = "Enhanced"
    /\ \E r1, r2 \in Intercepted : r1.headers.Date # r2.headers.Date

\* C10: the Authorization value built by generateLicenseApiAuthHeader for
\* shared secret s and primary key k is exactly
\* algorithm="hmac-sha256",headers="date",signature="<sig>",apikey="<k>"
\* where <sig> is generateLicenseApiSignature(s, k, date, licenseKey,
\* hardwareId) for the date returned with it.
C10_AuthorizationFormat ==
    (/\ ret.fn = "generateLicenseApiAuthHeader" /\ ret.called
     /\ ret.args.sharedKey # Undefined /\ ret.args.apiKey # Undefined) =>
        LET sig == generateLicenseApiSignature(ret.args.sharedKey, ret.args.apiKey,
                       ret.result.date, ret.args.licenseKey, ret.args.hardwareId)
            a == ret.result.authorization
        IN  /\ ~ret.result.threw
            /\ a = "algorithm=\"hmac-sha256\",headers=\"date\",signature=\"" \o sig.value
                       \o "\",apikey=\"" \o ret.args.apiKey[1] \o "\""
            /\ ~Includes(a, " ")
            /\ Attribute(a, "algorithm") = Some("hmac-sha256")
            /\ Attribute(a, "headers") = Some("date")
            /\ Find(a, "algorithm=") < Find(a, ",headers=")
            /\ Find(a, ",headers=") < Find(a, ",signature=")
            /\ Find(a, ",signature=") < Find(a, ",apikey=")

\* C10 witness: generateLicenseApiAuthHeader was called with a license and
\* hardware identifier pair after the clock had advanced.
C10_Witness ==
    /\ ret.fn = "generateLicenseApiAuthHeader" /\ ret.called
    /\ ret.args.sharedKey = Some("s1") /\ ret.args.apiKey = Some("live-k1")
    /\ Truthy(ret.args.licenseKey) /\ Truthy(ret.args.hardwareId)
    /\ ret.result.date = toUTCString(MaxClock)

-----------------------------------------------------------------------------
(* C11..C20 *)

\* C11: the string generateLicenseApiSignature signs is 'licenseSpring', a
\* newline, 'date: ' and the timestamp, extended by the newline-separated
\* license identifier, hardware identifier and primary key, in that order, if
\* and only if both identifiers are supplied and non-empty; when either is
\* missing or empty the signature is that of the base string alone, and the
\* call does not raise.
C11_CanonicalString ==
    (/\ ret.fn = "generateLicenseApiSignature" /\ ret.called
     /\ ret.args.sharedKey # Undefined /\ ret.args.apiKey # Undefined) =>
        LET a == ret.args
            base == "licenseSpring" \o "\n" \o "date: " \o a.date
            both == /\ a.licenseKey # Undefined /\ a.licenseKey # Some("")
                    /\ a.hardwareId # Undefined /\ a.hardwareId # Some("")
            extended == base \o "\n" \o a.licenseKey[1] \o "\n" \o a.hardwareId[1]
                             \o "\n" \o a.apiKey[1]
            signed == IF both THEN extended ELSE base
        IN  /\ ~ret.result.threw
            /\ SigningString(a.apiKey, a.date, a.licenseKey, a.hardwareId) = signed
            /\ ret.result.value = HmacSha256Base64(a.sharedKey[1], signed)
            /\ ~both => ret.result.value =
                   generateLicenseApiSignature(a.sharedKey, a.apiKey, a.date,
                                               Undefined, Undefined).value

\* C11 witness: generateLicenseApiSignature was called with a license
\* identifier and an empty hardware identifier, and returned a signature.
C11_Witness ==
    /\ ret.fn = "generateLicenseApiSignature" /\ ret.called
    /\ ret.args.sharedKey = Some("s1") /\ ret.args.apiKey = Some("live-k1")
    /\ ret.args.licenseKey = Some("L1") /\ ret.args.hardwareId = Some("")
    /\ ~ret.result.threw /\ Len(ret.result.value) = DigestChars

\* The signature attribute of the Authorization header of request r.
SignatureOf(r) == Attribute(Str(r.headers.Authorization), "signature")

\* C12 as claimed: for an offline request (activate_offline, deactivate_offline)
\* in Enhanced mode, the signature sent is computed over the extended canonical
\* string that binds the request's license identifier, hardware identifier and
\* the primary key, so offline requests for two different device/license pairs
\* at the same timestamp carry different signatures.
C12_OfflineSignatureBindsPair ==
    (licClient # <<>> /\ Mode(licClient[1]) = "Enhanced") =>
        /\ \A r \in Intercepted :
              r.tool \in OfflineTools =>
                SignatureOf(r) =
                    Some(generateLicenseApiSignature(licClient[1].sharedKey, licClient[1].apiKey,
                             Str(r.headers.Date), r.data.license_key, r.data.hardware_id).value)
        /\ \A r1, r2 \in Intercepted :
              (/\ r1.tool \in OfflineTools /\ r2.tool \in OfflineTools
               /\ r1.headers.Date = r2.headers.Date
               /\ r1.data # r2.data) =>
                    SignatureOf(r1) # SignatureOf(r2)

\* C13: once validateLicenseApiAuth has returned normally for a primary key and
\* shared secret and a LicenseApiClient has been constructed from the same
\* values, the request interceptor never raises: in each mode, and in
\* particular without a shared secret, every request it runs on gets its Date
\* and Authorization headers and none fails.
C13_HeaderConstructionNeverFails ==
    (/\ licClient # <<>>
     /\ ~validateLicenseApiAuth(licClient[1].apiKey, licClient[1].sharedKey,
                                env.NODE_ENV).threw) =>
        /\ ~Interceptor(licClient[1], env.NODE_ENV, clock).threw
        /\ \A r \in Requests :
              /\ r.st # "failed"
              /\ r.st \in {"intercepted", "sent"} =>
                    r.headers.Date # Undefined /\ r.headers.Authorization # Undefined

\* C13 witness: a License API server started without LICENSE_SHARED_KEY and
\* outside test mode has sent a request with both headers attached.
C13_Witness ==
    /\ server = "license" /\ pc = "running"
    /\ licClient # <<>> /\ licClient[1].sharedKey = Undefined
    /\ Mode(licClient[1]) = "Limited"
    /\ \E r \in Requests :
          r.st = "sent" /\ r.headers.Date # Undefined /\ r.headers.Authorization # Undefined

\* The requests that a step has just run the interceptor on.
NewlyIntercepted ==
    {r \in BagToSet(reqs') :
        r.st = "intercepted" /\ CopiesIn(r, reqs') > CopiesIn(r, reqs)}

\* C14: every License API request gets its timestamp from the clock at the
\* moment its interceptor runs and, in Enhanced mode, a signature over that
\* timestamp; nothing computed for an earlier request is reused, so a request
\* intercepted after the clock has advanced carries the timestamp of the later
\* clock value (to the second, as toUTCString renders it) and a signature over it.
C14_FreshTimestamp ==
    [][ licClient # <<>> =>
          \A r \in NewlyIntercepted :
              /\ r.headers.Date = Some(toUTCString(clock))
              /\ Mode(licClient[1]) = "Enhanced" =>
                    /\ r.hmac
                    /\ SignatureOf(r) =
                          Some(HmacSha256Base64(licClient[1].sharedKey[1],
                                   "licenseSpring\ndate: " \o toUTCString(clock))) ]_vars

\* C14 witness: an Enhanced-mode client sent one request at the epoch and has
\* intercepted another after the clock reached its last value; the two carry
\* different timestamps and different signatures.
C14_Witness ==
    /\ licClient # <<>> /\ Mode(licClient[1]) = "Enhanced"
    /\ clock = MaxClock
    /\ \E r1, r2 \in Requests :
          /\ r1.st = "sent" /\ r1.headers.Date = Some(toUTCString(0))
          /\ r2.st = "intercepted" /\ r2.headers.Date = Some(toUTCString(MaxClock))
          /\ SignatureOf(r1) # SignatureOf(r2)

\* The requests of a bag that carry headers, without their position.
Headered(bag) ==
    LET carrying == {r \in BagToSet(bag) : r.st \in {"intercepted", "sent"}}
        erase(r) == [r EXCEPT !.st = "attached"]
    IN  BagOfAll(erase, [r \in carrying |-> bag[r]])

\* C15: with any number of requests in flight on one LicenseApiClient and any
\* interleaving of their steps, the interceptor run for one request gives it
\* the Date and Authorization headers it would get were it the only request at
\* that clock value, and leaves every other request's headers as they were:
\* no request reads or changes the headers of another.
C15_ConcurrentHeaders ==
    [][ licClient # <<>> =>
          /\ Headered(reqs) \sqsubseteq Headered(reqs')
          /\ BagCardinality(Headered(reqs')) <= BagCardinality(Headered(reqs)) + 1
          /\ \A r \in BagToSet(reqs') : r.st = "created" => r.headers = NoHeaders
          /\ \A r \in NewlyIntercepted :
                LET alone == Interceptor(licClient[1], env.NODE_ENV, clock)
                IN  r.headers = [Date |-> alone.Date,
                                 Authorization |-> alone.Authorization] ]_vars

\* C15 witness: two requests of one Limited-mode client are in flight
\* together, intercepted in different seconds and neither sent yet.
C15_Witness ==
    /\ licClient # <<>> /\ Mode(licClient[1]) = "Limited"
    /\ \E r1, r2 \in Requests :
          /\ r1.st = "intercepted" /\ r2.st = "intercepted"
          /\ r1.headers.Date = Some(toUTCString(0))
          /\ r2.headers.Date = Some(toUTCString(MaxClock))

C17_TimestampChangesSignature ==
    (/\ ret.fn = "generateLicenseApiSignature" /\ ret.called
     /\ ret.args.sharedKey # Undefined /\ ret.args.apiKey # Undefined
     /\ ret.args.licenseKey = Undefined /\ ret.args.hardwareId = Undefined) =>
        \A date \in Timestamps \ {ret.args.date} :
            generateLicenseApiSignature(ret.args.sharedKey, ret.args.apiKey, date,
                                        Undefined, Undefined).value # ret.result.value

\* C17 witness: generateLicenseApiSignature was called without a pair on the
\* first timestamp of the unit test, whose second timestamp differs from it in
\* the day.
C17_Witness ==
    /\ ret.fn = "generateLicenseApiSignature" /\ ret.called
    /\ ret.args.sharedKey = Some("s1") /\ ret.args.apiKey = Some("test")
    /\ ret.args.licenseKey = Undefined /\ ret.args.hardwareId = Undefined
    /\ ret.args.date = "Mon, 19 Oct 2020 15:42:27 GMT"
    /\ "Tue, 20 Oct 2020 15:42:27 GMT" \in Timestamps
    /\ ~ret.result.threw

\* C18: for the same shared secret, primary key and timestamp, the signature
\* generateLicenseApiSignature returns when a non-empty license identifier and
\* hardware identifier are supplied differs from the one it returns without a
\* pair.
C18_PairChangesSignature ==
    (/\ ret.fn = "generateLicenseApiSignature" /\ ret.called
     /\ ret.args.sharedKey # Undefined /\ ret.args.apiKey # Undefined
     /\ Truthy(ret.args.licenseKey) /\ Truthy(ret.args.hardwareId)) =>
        ret.result.value #
            generateLicenseApiSignature(ret.args.sharedKey, ret.args.apiKey, ret.args.date,
                                        Undefined, Undefined).value

\* C18 witness: generateLicenseApiSignature was called with a license and
\* hardware identifier pair and an empty shared secret.
C18_Witness ==
    /\ ret.fn = "generateLicenseApiSignature" /\ ret.called
    /\ ret.args.sharedKey = Some("") /\ ret.args.apiKey = Some("live-k1")
    /\ ret.args.licenseKey = Some("L1") /\ ret.args.hardwareId = Some("L1")
    /\ ~ret.result.threw

\* C19: for every key, generateManagementApiAuthHeader returns exactly
\* 'Api-Key', one space, and the key unchanged; called again on the same key it
\* returns the same value, whatever the clock and NODE_ENV have become.
C19_ManagementHeaderLiteral ==
    /\ []((/\ ret.fn = "generateManagementApiAuthHeader" /\ ret.called
           /\ ret.args.apiKey # Undefined) =>
            LET key == ret.args.apiKey[1]
                v == ret.result.value
            IN  /\ ~ret.result.threw
                /\ v = "Api-Key " \o key
                /\ Len(v) = Len(key) + 8
                /\ SubSeq(v, 1, 7) = "Api-Key" /\ SubSeq(v, 8, 8) = " "
                /\ SubSeq(v, 9, Len(v)) = key
                /\ v = generateManagementApiAuthHeader(ret.args.apiKey))
    /\ [][(/\ ret.fn = "generateManagementApiAuthHeader" /\ ret.called
           /\ ret'.calls > ret.calls) => ret'.result = ret.result]_vars

\* C19 witness: generateManagementApiAuthHeader has been called twice on a key
\* with a 'test-' prefix, the second time in a test environment after the
\* clock had run on.
C19_Witness ==
    /\ ret.fn = "generateManagementApiAuthHeader" /\ ret.calls = MaxCalls
    /\ ret.args.apiKey = Some("test-k1")
    /\ clock = MaxClock /\ env.NODE_ENV = Some("test")
    /\ ret.result.value = "Api-Key test-k1"

\* C20: in Limited mode (shared secret absent or empty, test mode not active)
\* the Authorization header of every License API request is exactly
\* apikey="<primary key>", with no algorithm, headers or signature attribute.
C20_LimitedHeaderExact ==
    (licClient # <<>> /\ Mode(licClient[1]) = "Limited") =>
        \A r \in Intercepted :
            LET a == Str(r.headers.Authorization)
            IN  /\ r.headers.Authorization # Undefined
                /\ a = "apikey=\"" \o licClient[1].apiKey[1] \o "\""
                /\ Attribute(a, "apikey") = licClient[1].apiKey
                /\ Attribute(a, "algorithm") = Undefined
                /\ Attribute(a, "headers") = Undefined
                /\ Attribute(a, "signature") = Undefined
                /\ ~Includes(a, ",")

\* C20 witness: a client constructed directly with a key and no shared secret,
\* outside test mode, has sent a request carrying the key-only header.
C20_Witness ==
    /\ server = "unit" /\ licClient # <<>>
    /\ licClient[1].apiKey = Some("live-k1") /\ licClient[1].sharedKey = Undefined
    /\ Mode(licClient[1]) = "Limited"
    /\ \E r \in Requests :
          r.st = "sent" /\ r.headers.Authorization = Some("apikey=\"live-k1\"")

-----------------------------------------------------------------------------
(* C21..C30 *)

\* C21 as claimed: in Test mode (primary key starting with 'test-', or NODE_ENV
\* equal to 'test') no real API call is made: a tool invocation on the License
\* API server never hands an outbound HTTP request to the network.
C21_TestModeNoOutboundRequest ==
    (server = "license" /\ licClient # <<>> /\ Mode(licClient[1]) = "Test") =>
        \A r \in Requests : r.tool \in LicenseTools => r.st # "sent"

\* C22 as claimed: for every vendor response with status 401 or 403, the
\* message handleApiError produces includes the guidance to check whether a
\* shared secret (LICENSE_SHARED_KEY) is required, whatever the response body
\* and status text.
C22_AuthErrorsCarryGuidance ==
    (/\ ret.fn = "handleApiError" /\ ret.called
     /\ ret.args.error.response # <<>>
     /\ ret.args.error.response[1].status \in {401, 403}) =>
        /\ ~ret.result.threw
        /\ Includes(ret.result.value, "LICENSE_SHARED_KEY")

\* C23 as claimed: every tool invocation on the License API server ends by
\* returning an MCP result, either the response body as text or a result with
\* isError true and a formatted message; for every failure of the outbound
\* call (any error status with any body shape, no response, any other error)
\* the failure is caught and reported in the result, and no exception leaves
\* the tool handler, handleApiError's own included.
C23_ToolAlwaysReturnsResult ==
    (ret.fn = "activate_license" /\ ret.called) =>
        /\ ~ret.result.threw
        /\ ret.args.ok => ~ret.result.value.isError /\ ret.result.value.text = ret.args.body
        /\ ~ret.args.ok =>
              /\ ret.result.value.isError
              /\ StartsWith(ret.result.value.text, "Error activating license: ")

\* C24: every outbound License API request carries both a Date header and an
\* Authorization header, and in all three modes the Authorization value
\* contains apikey="<k>" for the primary key k the client was constructed with.
C24_HeadersAlwaysCarryKey ==
    licClient # <<>> =>
        \A r \in Requests :
            r.st \in {"intercepted", "sent"} =>
                /\ r.headers.Date # Undefined
                /\ r.headers.Authorization # Undefined
                /\ Includes(r.headers.Authorization[1],
                            "apikey=\"" \o licClient[1].apiKey[1] \o "\"")
                /\ Attribute(r.headers.Authorization[1], "apikey") = licClient[1].apiKey

\* C24 witness: a client that is in Test mode through NODE_ENV alone has sent
\* a request whose placeholder header names its key.
C24_Witness ==
    /\ licClient # <<>> /\ Mode(licClient[1]) = "Test"
    /\ licClient[1].apiKey = Some("live-k1")
    /\ \E r \in Requests :
          /\ r.st = "sent"
          /\ Scheme(Str(r.headers.Authorization)) = "placeholder"
          /\ Attribute(Str(r.headers.Authorization), "apikey") = Some("live-k1")

\* The console lines that are warnings.
Warnings(lines) == {i \in 1..Len(lines) : lines[i].level = "warn"}

\* The diagnostic about the missing shared secret is among the lines.
MissingSecretDiagnostic(lines) ==
    \E i \in Warnings(lines) : Includes(lines[i].text, "LICENSE_SHARED_KEY not provided")

\* C25: for a non-empty primary key, validateLicenseApiAuth emits the
\* diagnostic about the missing shared secret if and only if the mode is
\* Limited (shared secret absent or empty, test mode not active); in Test mode
\* it emits only the test-mode warning, and in Enhanced mode no warning.
C25_DiagnosticIffLimited ==
    [][ (/\ ret.fn = "validateLicenseApiAuth" /\ ret'.calls > ret.calls
         /\ Truthy(ret.args.apiKey)) =>
          LET test == StartsWith(ret.args.apiKey[1], "test-") \/ env.NODE_ENV = Some("test")
              secret == ret.args.sharedKey # Undefined /\ ret.args.sharedKey # Some("")
              lines == ret'.result.lines
          IN  /\ ~ret'.result.threw
              /\ MissingSecretDiagnostic(lines) <=> (~test /\ ~secret)
              /\ test =>
                    /\ Warnings(lines) = 1..Len(lines) /\ Len(lines) = 2
                    /\ Includes(lines[1].text, "TEST MODE")
                    /\ Includes(lines[2].text, "test authentication")
                    /\ \A i \in 1..Len(lines) : ~Includes(lines[i].text, "LICENSE_SHARED_KEY")
              /\ (~test /\ secret) => Warnings(lines) = {} /\ Len(lines) = 1 ]_vars

\* C25 witness: validateLicenseApiAuth was called with a key and an empty
\* shared secret and has emitted the diagnostic about the missing secret.
C25_Witness ==
    /\ ret.fn = "validateLicenseApiAuth" /\ ret.called
    /\ ret.args.apiKey = Some("test") /\ ret.args.sharedKey = Some("")
    /\ ~ret.result.threw
    /\ MissingSecretDiagnostic(ret.result.lines)

\* C26: every request sent through a ManagementApiClient carries the same
\* Authorization value, 'Api-Key ' followed by the key given at construction;
\* the value is computed once at construction and no get/post/put/delete/patch
\* call recomputes or changes it, and the client adds no Date header.
C26_ManagementHeaderFixed ==
    /\ []((mgmtClient # <<>> /\ mgmtClient[1].apiKey # Undefined) =>
            /\ mgmtClient[1].headers.Authorization =
                   Some("Api-Key " \o mgmtClient[1].apiKey[1])
            /\ \A r \in Requests :
                  /\ r.st = "sent" =>
                        /\ r.headers.Authorization = mgmtClient[1].headers.Authorization
                        /\ r.headers.Date = Undefined
                  /\ r.st # "sent" => r.headers = NoHeaders)
    /\ [][mgmtClient # <<>> => mgmtClient' = mgmtClient]_vars

\* C26 witness: a ManagementApiClient has sent a patch request and another
\* request, after the clock had run on; both carry the one header.
C26_Witness ==
    /\ mgmtClient # <<>> /\ mgmtClient[1].apiKey = Some("live-k1")
    /\ clock = MaxClock
    /\ \E r1, r2 \in Requests :
          /\ r1.method = "patch" /\ r2.method # "patch"
          /\ r1.st = "sent" /\ r2.st = "sent"
          /\ r1.headers.Authorization = Some("Api-Key live-k1")
          /\ r2.headers = r1.headers

\* C27: the credentials held by a LicenseApiClient are immutable: after
\* construction no request and no header construction changes its primary key,
\* shared secret or mode flags, and assigning LICENSE_API_KEY or
\* LICENSE_SHARED_KEY in the environment after startup has no effect on the
\* headers of later requests, which are built from the values read at startup.
C27_CredentialsImmutable ==
    /\ [][licClient # <<>> => licClient' = licClient]_vars
    /\ []((server = "license" /\ licClient # <<>>) =>
            /\ licClient[1].apiKey = config.API_KEY
            /\ licClient[1].sharedKey = config.SHARED_KEY)
    /\ [][(server = "license" /\ licClient # <<>>) =>
            \A r \in NewlyIntercepted :
                /\ Scheme(Str(r.headers.Authorization)) = SchemeOfMode(Mode(licClient[1]))
                /\ Attribute(Str(r.headers.Authorization), "apikey") = config.API_KEY
                /\ Mode(licClient[1]) = "Enhanced" =>
                      SignatureOf(r) =
                          Some(HmacSha256Base64(config.SHARED_KEY[1],
                                   "licenseSpring\ndate: " \o Str(r.headers.Date)))]_vars

\* C27 witness: both credential variables were reassigned after startup and a
\* request intercepted after that has been sent with the key read at startup.
C27_Witness ==
    /\ server = "license" /\ licClient # <<>>
    /\ env.API_KEY = RotatedKeys.API_KEY /\ env.SHARED_KEY = RotatedKeys.SHARED_KEY
    /\ config.API_KEY = Some("live-k1") /\ config.SHARED_KEY = Some("s1")
    /\ \E r \in Requests :
          /\ r.st = "sent" /\ r.envKey = RotatedKeys.API_KEY
          /\ Attribute(Str(r.headers.Authorization), "apikey") = Some("live-k1")

\* The mode the startup lines of validateLicenseApiAuth announce.
Announced(lines) ==
    IF \E i \in 1..Len(lines) : Includes(lines[i].text, "TEST MODE") THEN "Test"
    ELSE IF \E i \in 1..Len(lines) : Includes(lines[i].text, "(enhanced security)")
    THEN "Enhanced"
    ELSE IF \E i \in 1..Len(lines) : Includes(lines[i].text, "(primary authentication method)")
    THEN "Limited"
    ELSE "none"

\* C28: the mode validateLicenseApiAuth announces at startup is the mode the
\* LicenseApiClient uses: for every non-empty primary key, shared secret and
\* NODE_ENV, validation takes the Test / Enhanced / Limited branch exactly
\* when the client attaches the placeholder / signed / key-only header.
C28_AnnouncedModeIsClientMode ==
    (server = "license" /\ licClient # <<>>) =>
        /\ Announced(console) \in {"Test", "Enhanced", "Limited"}
        /\ Announced(console) = Mode(licClient[1])
        /\ \A r \in Intercepted :
              Scheme(Str(r.headers.Authorization)) = SchemeOfMode(Announced(console))

\* C28 witness: a License API server started with a plain key, a shared
\* secret and NODE_ENV 'test' announced Test mode and has sent a request with
\* the placeholder header.
C28_Witness ==
    /\ server = "license" /\ licClient # <<>>
    /\ config.API_KEY = Some("live-k1") /\ config.SHARED_KEY = Some("s1")
    /\ Announced(console) = "Test"
    /\ \E r \in Requests :
          r.st = "sent" /\ Scheme(Str(r.headers.Authorization)) = "placeholder"

\* An Authorization value with the value of its signature attribute cut out.
WithoutSignature(a) ==
    LET i == Find(a, "signature=\"")
        from == i + Len("signature=\"")
        close == {j \in from..Len(a) : SubSeq(a, j, j) = "\""}
    IN  IF i = 0 \/ close = {} THEN a
        ELSE SubSeq(a, 1, from - 1)
                 \o SubSeq(a, CHOOSE j \in close : \A l \in close : j <= l, Len(a))

\* The clients that differ from this one in the shared secret only and are in
\* the same mode: built from the same key in the same environment.
SameButSecret(this) ==
    {alt \in {[this EXCEPT !.sharedKey = s,
                           !.hasSharedKey = Truthy(s) /\ ~this.isTestMode] : s \in SharedKeys} :
        Mode(alt) = Mode(this)}

\* C29: in no mode does a header attached to a License API request contain
\* the shared secret itself: the secret enters a request only as the key of
\* the HMAC in Enhanced mode, and in Test and Limited modes the attached
\* headers are the same whatever the shared secret.
C29_SecretNeverSent ==
    /\ []((licClient # <<>> /\ Truthy(licClient[1].sharedKey)) =>
            \A r \in Intercepted :
                /\ ~Includes(Str(r.headers.Date), licClient[1].sharedKey[1])
                /\ ~Includes(WithoutSignature(Str(r.headers.Authorization)),
                             licClient[1].sharedKey[1])
                /\ SignatureOf(r) =
                      IF Mode(licClient[1]) = "Enhanced"
                      THEN Some(HmacSha256Base64(licClient[1].sharedKey[1],
                                    "licenseSpring\ndate: " \o Str(r.headers.Date)))
                      ELSE Some("test-signature"))
    /\ [][(licClient # <<>> /\ Mode(licClient[1]) \in {"Test", "Limited"}) =>
            \A r \in NewlyIntercepted :
                \A alt \in SameButSecret(licClient[1]) :
                    LET h == Interceptor(alt, env.NODE_ENV, clock)
                    IN  r.headers = [Date |-> h.Date, Authorization |-> h.Authorization]]_vars

\* C29 witness: a Test-mode client holding a shared secret and an
\* Enhanced-mode request are both seen: here the Test-mode client with the
\* secret s1 has sent a request, whose header has the placeholder signature.
C29_Witness ==
    /\ licClient # <<>> /\ licClient[1].sharedKey = Some("s1")
    /\ Mode(licClient[1]) = "Test"
    /\ Cardinality(SameButSecret(licClient[1])) = Cardinality(SharedKeys)
    /\ \E r \in Requests :
          r.st = "sent" /\ SignatureOf(r) = Some("test-signature")

\* C30: for an error whose response status is neither 401 nor 403,
\* handleApiError returns the first non-empty field of the response body among
\* message, error and detail, in that order, and otherwise
\* 'HTTP <status>: <statusText>'; for an error with a request but no response
\* it returns the fixed no-response message; for any other error it returns
\* the error's message, or the fixed unknown-error message when it has none.
C30_OtherErrorsFormatted ==
    (ret.fn = "handleApiError" /\ ret.called) =>
        LET error == ret.args.error
        IN  IF error.response # <<>>
            THEN LET status == error.response[1].status
                     data == error.response[1].data
                     field == FirstTruthy(IF data.kind = "object"
                                          THEN <<data.message, data.error, data.detail>>
                                          ELSE <<Undefined>>)
                 IN  status \notin {401, 403} =>
                        /\ ~ret.result.threw
                        /\ ret.result.value =
                              IF Truthy(field) THEN Str(field)
                              ELSE "HTTP " \o ToString(status) \o ": "
                                       \o error.response[1].statusText
            ELSE /\ ~ret.result.threw
                 /\ ret.result.value =
                       IF error.request
                       THEN "No response received from LicenseSpring API server. Please check your internet connection."
                       ELSE IF Truthy(error.message) THEN Str(error.message)
                       ELSE "Unknown error occurred while communicating with LicenseSpring API"

\* C30 witness: a 500 response whose body has an empty message, an error and
\* a detail has been formatted as its error field.
C30_Witness ==
    /\ ret.fn = "handleApiError" /\ ret.called
    /\ ret.args.error.response # <<>>
    /\ ret.args.error.response[1].status = 500
    /\ ret.args.error.response[1].data =
          Body("object", Some(""), Some("License not found"), Some("Invalid signature"))
    /\ ret.result = Return("License not found")

====
